---- MODULE Spec2Model ----
(***************************************************************************)
(* 2x2 normal-form games: the Nash equilibrium solver of ne.py (dom_strat, *)
(* pure_NE, mixed_NE) and the fictitious-play simulator of fict_play.py    *)
(* (emp_strat, best_response, fict_play).                                  *)
(*                                                                         *)
(* A game is the 4-tuple of cells                                          *)
(*   <<a(Top,Left), a(Top,Right), a(Bottom,Left), a(Bottom,Right)>>        *)
(* and a cell is the pair <<u_rowena, u_colin>>.  Python's 0-based game[k] *)
(* is game[k+1] here; the utility matrices keep the 0-based indices of the *)
(* source.                                                                 *)
(***************************************************************************)
EXTENDS Integers, Sequences, FiniteSets, TLC

VARIABLES game, pc, call, ret,
          H_r, H_c, strats_r, strats_c, i, converged, a

vars == <<game, pc, call, ret, H_r, H_c, strats_r, strats_c, i, converged, a>>

-----------------------------------------------------------------------------
(* Bounds of the model. *)

\* utilities of the enumerated games of the solver range over 0..MaxU
MaxU == 2
\* utilities of the enumerated games of the simulator range over 0..FPMaxU
FPMaxU == 1
\* opponent strategies handed to best_response are the k/n with n <= MaxDen
MaxDen == 3
\* rounds of fict_play explored by the bounded simulation
MaxRounds == 150
\* rounds of fict_play explored by the full runs (above the 10001 of the bound)
RoundCap == 10005

-----------------------------------------------------------------------------
(* Numbers.  A float is modelled by the rational it holds: the pair        *)
(* <<n, d>> in lowest terms with d > 0, so that equal values are equal     *)
(* pairs (1 and 1.0 are both <<1, 1>>).                                    *)

Abs(x) == IF x < 0 THEN -x ELSE x

RECURSIVE Gcd(_, _)
Gcd(m, n) == IF n = 0 THEN m ELSE Gcd(n, m % n)

Frac(n, d) ==
    LET g == Gcd(Abs(n), Abs(d))
        s == IF d < 0 THEN -1 ELSE 1
    IN  <<(s * n) \div g, (s * d) \div g>>

FSub(x, y) == Frac(x[1] * y[2] - y[1] * x[2], x[2] * y[2])
FAbs(x) == <<Abs(x[1]), x[2]>>
FLt(x, y) == x[1] * y[2] < y[1] * x[2]
FLe(x, y) == x[1] * y[2] <= y[1] * x[2]

\* Python's round(s) of a float: nearest integer, a tie goes to the even one
Round(s) ==
    LET fl == s[1] \div s[2]
        r2 == 2 * (s[1] - fl * s[2])
    IN  IF r2 < s[2] THEN fl
        ELSE IF r2 > s[2] THEN fl + 1
        ELSE IF fl % 2 = 0 THEN fl ELSE fl + 1

-----------------------------------------------------------------------------
(* Python values of the solver: every value is a triple <<tag, n, d>>.     *)

None == <<"None", 0, 1>>
LinAlgError == <<"LinAlgError", 0, 1>>
Interval == <<"[0,1]", 0, 1>>
Num(f) == <<"num", f[1], f[2]>>
PyInt(k) == <<"num", k, 1>>
\* str(x)+'+eps' and str(x)+'-eps': the text of the number and the suffix
PlusEps(x) == <<"+eps", x[2], x[3]>>
MinusEps(x) == <<"-eps", x[2], x[3]>>

IsNum(x) == x[1] = "num"
Val(x) == <<x[2], x[3]>>
\* truth value of `if x:` / `not x`: None and zero are false
Truthy(x) == ~(x = None \/ (IsNum(x) /\ x[2] = 0))
\* p <= 1 and p >= 0
InUnit(x) == FLe(Val(x), <<1, 1>>) /\ FLe(<<0, 1>>, Val(x))

-----------------------------------------------------------------------------
(* Games. *)

matching_pennies == <<<<1, -1>>, <<-1, 1>>, <<-1, 1>>, <<1, -1>>>>
prisoners_dilemma == <<<<-10, -10>>, <<-25, 0>>, <<0, -25>>, <<-20, -20>>>>

GamesOver(U) == (U \X U) \X (U \X U) \X (U \X U) \X (U \X U)
Games == GamesOver(0..MaxU) \cup {matching_pennies, prisoners_dilemma}
FPGames == GamesOver(0..FPMaxU) \cup {matching_pennies, prisoners_dilemma}

\* the other example games of main() in ne.py
hw1_2a == <<<<3, 5>>, <<2, 7>>, <<1, 6>>, <<8, 4>>>>
hw1_2b == <<<<2, 7>>, <<2, 5>>, <<2, 1>>, <<2, 7>>>>
omerta == <<<<2, 2>>, <<1, 0>>, <<0, 1>>, <<0, 0>>>>
\* the games played to the end: the examples, and one more cycling game
RunGames == {matching_pennies, prisoners_dilemma, hw1_2a, hw1_2b, omerta,
             <<<<0, 0>>, <<0, 1>>, <<1, 0>>, <<0, 0>>>>,
             <<<<0, 0>>, <<0, 0>>, <<1, 0>>, <<1, 1>>>>}

\* u(game): Rowena's and Colin's utility matrices, indexed [row][column]
U1(g) == [r \in 0..1 |-> [c \in 0..1 |-> g[2 * r + c + 1][1]]]
U2(g) == [r \in 0..1 |-> [c \in 0..1 |-> g[2 * r + c + 1][2]]]

-----------------------------------------------------------------------------
(* ne.py *)

\* Second's condition tested before First's
dom_strat_second_first(g, p) ==
    LET u1 == U1(g)
        u2 == U2(g)
    IN  IF p = "R" THEN
            IF u1[1][0] >= u1[0][0] /\ u1[1][1] >= u1[0][1] THEN PyInt(2)
            ELSE IF u1[0][0] >= u1[1][0] /\ u1[0][1] >= u1[1][1] THEN PyInt(1)
            ELSE None
        ELSE IF p = "C" THEN
            IF u2[0][1] >= u2[0][0] /\ u2[1][1] >= u2[1][0] THEN PyInt(2)
            ELSE IF u2[0][0] >= u2[0][1] /\ u2[1][0] >= u2[1][1] THEN PyInt(1)
            ELSE None
        ELSE None

dom_strat(g, p) ==
    LET u1 == U1(g)
        u2 == U2(g)
    IN  IF p = "R" THEN
            IF u1[0][0] >= u1[1][0] /\ u1[0][1] >= u1[1][1] THEN PyInt(1)
            ELSE IF u1[1][0] >= u1[0][0] /\ u1[1][1] >= u1[0][1] THEN PyInt(2)
            ELSE None
        ELSE IF p = "C" THEN
            IF u2[0][0] >= u2[0][1] /\ u2[1][0] >= u2[1][1] THEN PyInt(1)
            ELSE IF u2[0][1] >= u2[0][0] /\ u2[1][1] >= u2[1][0] THEN PyInt(2)
            ELSE None
        ELSE None

\* Colin's test of the cell (Bottom, Left) made in the wrong row
pure_NE_wrong_row(g) ==
    LET u1 == U1(g)
        u2 == U2(g)
        c11 == IF u1[0][0] >= u1[1][0] /\ u2[0][0] >= u2[0][1] THEN <<<<1, 1>>>> ELSE <<>>
        c10 == IF u1[0][1] >= u1[1][1] /\ u2[0][1] >= u2[0][0] THEN <<<<1, 0>>>> ELSE <<>>
        c00 == IF u1[1][1] >= u1[0][1] /\ u2[1][1] >= u2[1][0] THEN <<<<0, 0>>>> ELSE <<>>
        c01 == IF u1[1][0] >= u1[0][0] /\ u2[0][0] >= u2[0][1] THEN <<<<0, 1>>>> ELSE <<>>
    IN  c11 \o c10 \o c00 \o c01

pure_NE(g) ==
    LET u1 == U1(g)
        u2 == U2(g)
        c11 == IF u1[0][0] >= u1[1][0] /\ u2[0][0] >= u2[0][1] THEN <<<<1, 1>>>> ELSE <<>>
        c10 == IF u1[0][1] >= u1[1][1] /\ u2[0][1] >= u2[0][0] THEN <<<<1, 0>>>> ELSE <<>>
        c00 == IF u1[1][1] >= u1[0][1] /\ u2[1][1] >= u2[1][0] THEN <<<<0, 0>>>> ELSE <<>>
        c01 == IF u1[1][0] >= u1[0][0] /\ u2[1][0] >= u2[1][1] THEN <<<<0, 1>>>> ELSE <<>>
    IN  c11 \o c10 \o c00 \o c01

\* np.linalg.solve of the 1x1 system coef * x = rhs
solve(coef, rhs) == IF coef = 0 THEN LinAlgError ELSE Num(Frac(rhs, coef))

\* i = p+1%2: % binds tighter than +
SideIndex(p) == p + (1 % 2)

\* numpy indexing of an axis of size 2: -2..1 are valid, a negative index
\* counts from the end, anything else raises IndexError
InBounds(ix) == ix \in -2..1
At(ix) == ix % 2

\* lines 122-142: the indifference equation of Colin and its fallback.
\* returned = TRUE: mixed_NE returns value; otherwise it goes on with p.
TryP(g) ==
    LET u1 == U1(g)
        u2 == U2(g)
        p0 == solve((u2[0][0] - u2[1][0]) - (u2[0][1] - u2[1][1]), -u2[1][0] + u2[1][1])
        go(p) == [returned |-> FALSE, value |-> <<>>, p |-> p]
        return(v) == [returned |-> TRUE, value |-> v, p |-> None]
    IN  IF p0 = LinAlgError THEN go(None)
        ELSE IF InUnit(p0) THEN go(p0)
        ELSE LET s_c == dom_strat(g, "C") IN
             IF Truthy(s_c) THEN
                 LET p == s_c[2] % 2
                     ix == SideIndex(p)
                 IN  IF ~InBounds(ix) THEN go(None)
                     ELSE IF u1[0][At(ix)] > u1[1][At(ix)] THEN return(<<<<PyInt(1), PyInt(p)>>>>)
                     ELSE IF u1[0][At(ix)] < u1[1][At(ix)] THEN return(<<<<PyInt(0), PyInt(p)>>>>)
                     ELSE return(<<<<Interval, PyInt(p)>>>>)
             ELSE go(None)

\* lines 143-162: the indifference equation of Rowena and its fallback;
\* p is the value the first block left.
TryQ(g, p) ==
    LET u1 == U1(g)
        u2 == U2(g)
        q0 == solve((u1[0][0] - u1[0][1]) - (u1[1][0] - u1[1][1]), -u1[0][1] + u1[1][1])
        go(q) == [returned |-> FALSE, value |-> <<>>, q |-> q]
        return(v) == [returned |-> TRUE, value |-> v, q |-> None]
    IN  IF q0 = LinAlgError THEN go(None)
        ELSE IF InUnit(q0) THEN go(q0)
        ELSE LET s_r == dom_strat(g, "R") IN
             IF Truthy(s_r) THEN
                 LET q == s_r[2] % 2
                     ix == SideIndex(q)
                 IN  IF ~InBounds(ix) THEN go(None)
                     ELSE IF u2[0][At(ix)] > u2[1][At(ix)] THEN return(<<<<PyInt(1), p>>>>)
                     ELSE IF u2[0][At(ix)] < u2[1][At(ix)] THEN return(<<<<PyInt(0), p>>>>)
                     ELSE return(<<<<Interval, p>>>>)
             ELSE go(None)

\* lines 163-215: the results of the two blocks combined
Combine(g, p, q) ==
    LET u1 == U1(g)
        u2 == U2(g)
    IN  IF ~Truthy(p) THEN
            IF ~Truthy(q) THEN
                LET s_r == dom_strat(g, "R")
                    s_c == dom_strat(g, "C")
                IN  IF Truthy(s_r) THEN
                        IF Truthy(s_c) THEN <<<<PyInt(s_r[2] % 2), PyInt(s_c[2] % 2)>>>>
                        ELSE <<<<PyInt(s_r[2] % 2), Interval>>>>
                    ELSE IF Truthy(s_c) THEN <<<<Interval, PyInt(s_c[2] % 2)>>>>
                    ELSE <<<<Interval, Interval>>>>
            ELSE
                <<<<Interval, q>>>>
                \o (IF FLt(Val(q), <<1, 1>>)
                    THEN (IF u1[0][0] > u1[1][0] THEN <<<<PyInt(1), PlusEps(q)>>>>
                          ELSE <<<<PyInt(0), PlusEps(q)>>>>)
                    ELSE <<>>)
                \o (IF u1[0][1] > u1[1][1] THEN <<<<PyInt(1), MinusEps(q)>>>>
                    ELSE <<<<PyInt(0), MinusEps(q)>>>>)
        ELSE IF ~Truthy(q) THEN
            <<<<p, Interval>>>>
            \o (IF FLt(Val(p), <<1, 1>>)
                THEN (IF u2[0][0] > u2[0][1] THEN <<<<PlusEps(p), PyInt(1)>>>>
                      ELSE <<<<PlusEps(p), PyInt(0)>>>>)
                ELSE <<>>)
            \o (IF u1[1][0] > u1[1][1] THEN <<<<MinusEps(p), PyInt(1)>>>>
                ELSE <<<<MinusEps(p), PyInt(0)>>>>)
        ELSE <<<<p, q>>>>

mixed_NE(g) ==
    LET tp == TryP(g) IN
    IF tp.returned THEN tp.value
    ELSE LET tq == TryQ(g, tp.p) IN
         IF tq.returned THEN tq.value
         ELSE Combine(g, tp.p, tq.q)

-----------------------------------------------------------------------------
(* fict_play.py *)

\* Python's sum(H): every value of H times the number of places holding it
RECURSIVE SumOver(_, _)
SumOver(vals, H) ==
    IF vals = {} THEN 0
    ELSE LET v == CHOOSE x \in vals : TRUE
         IN  v * Cardinality({k \in DOMAIN H : H[k] = v}) + SumOver(vals \ {v}, H)

Sum(H) == SumOver({H[k] : k \in DOMAIN H}, H)

\* the transposed ratio
emp_strat_inverted(H) == Frac(Len(H), Sum(H))

emp_strat(H) == Frac(Sum(H), Len(H))

\* numpy argmax of a vector of two: the first index holding the maximum
Argmax(v) == IF v[1] >= v[2] THEN 0 ELSE 1

\* the index of the maximum plus one, the % 2 left out
best_response_no_mod(g, player, s) ==
    LET u1 == U1(g)
        u2 == U2(g)
        k == (Round(s) + 1) % 2
    IN  IF player = "R" THEN
            LET a_c == <<u1[0][k], u1[1][k]>>
            IN  Argmax(a_c) + 1
        ELSE
            LET a_r == <<u2[k][0], u2[k][1]>>
            IN  Argmax(a_r) + 1

best_response(g, player, s) ==
    LET u1 == U1(g)
        u2 == U2(g)
        k == (Round(s) + 1) % 2
    IN  IF player = "R" THEN
            LET a_c == <<u1[0][k], u1[1][k]>>
            IN  (Argmax(a_c) + 1) % 2
        ELSE
            LET a_r == <<u2[k][0], u2[k][1]>>
            IN  (Argmax(a_r) + 1) % 2

eps == <<1, 10000>>

Last(s) == s[Len(s)]

\* `or` between the two players' tests
ConvergenceTest_either(n, prev_r, s_r, prev_c, s_c) ==
    /\ n > 0
    /\ \/ FLt(FAbs(FSub(prev_r, s_r)), eps)
       \/ FLt(FAbs(FSub(prev_c, s_c)), eps)

\* line 173: i > 0 and abs(strats_r[-1] - s_r) < eps and abs(strats_c[-1] - s_c) < eps
ConvergenceTest(n, prev_r, s_r, prev_c, s_c) ==
    /\ n > 0
    /\ FLt(FAbs(FSub(prev_r, s_r)), eps)
    /\ FLt(FAbs(FSub(prev_c, s_c)), eps)

-----------------------------------------------------------------------------
(* The solver as a library: one call of one function on one game. *)

NoCall == [fn |-> "none", player |-> "-", s |-> <<0, 1>>]

Strategies == {Frac(k, n) : k \in 0..MaxDen, n \in 1..MaxDen} \cap
              {f \in (0..MaxDen) \X (1..MaxDen) : f[1] <= f[2]}

Idle ==
    /\ H_r = <<>> /\ H_c = <<>> /\ strats_r = <<>> /\ strats_c = <<>>
    /\ i = 0 /\ converged = FALSE /\ a = <<1, 1>>

Init ==
    /\ game \in Games
    /\ pc = "main"
    /\ call = NoCall
    /\ ret = <<>>
    /\ Idle

Returns(c, v) ==
    /\ pc = "main"
    /\ pc' = "done"
    /\ call' = c
    /\ ret' = v
    /\ UNCHANGED <<game, H_r, H_c, strats_r, strats_c, i, converged, a>>

Call_dom_strat ==
    \E p \in {"R", "C"} :
        Returns([fn |-> "dom_strat", player |-> p, s |-> <<0, 1>>], dom_strat(game, p))

Call_pure_NE ==
    Returns([fn |-> "pure_NE", player |-> "-", s |-> <<0, 1>>], pure_NE(game))

Call_mixed_NE ==
    Returns([fn |-> "mixed_NE", player |-> "-", s |-> <<0, 1>>], mixed_NE(game))

Call_best_response ==
    \E p \in {"R", "C"}, s \in Strategies :
        Returns([fn |-> "best_response", player |-> p, s |-> s], best_response(game, p, s))

Next ==
    \/ Call_dom_strat
    \/ Call_pure_NE
    \/ Call_mixed_NE
    \/ Call_best_response

Spec == Init /\ [][Next]_vars

-----------------------------------------------------------------------------
(* fict_play: the state after lines 153-162, then one action per iteration *)
(* of the while loop; the iteration that sets converged is the last one,   *)
(* and the function returns strats_r and strats_c as they then stand.      *)

InitOn(G) ==
    /\ game \in G
    /\ pc = "fict_play"
    /\ call = [fn |-> "fict_play", player |-> "-", s |-> <<0, 1>>]
    /\ ret = <<>>
    /\ a = <<1, 1>>
    /\ H_r = <<a[1]>>
    /\ H_c = <<a[2]>>
    /\ strats_r = <<<<a[1], 1>>>>
    /\ strats_c = <<<<a[2], 1>>>>
    /\ converged = FALSE
    /\ i = 0

fict_play_round(cap) ==
    /\ pc = "fict_play"
    /\ ~converged
    /\ i < cap
    /\ LET s_r == emp_strat(H_r)
           s_c == emp_strat(H_c)
           a_r == best_response(game, "R", s_c)
           a_c == best_response(game, "C", s_r)
           conv == ConvergenceTest(i, Last(strats_r), s_r, Last(strats_c), s_c)
       IN  /\ converged' = conv
           /\ a' = <<a_r, a_c>>
           /\ H_r' = Append(H_r, a_r)
           /\ H_c' = Append(H_c, a_c)
           /\ strats_r' = Append(strats_r, s_r)
           /\ strats_c' = Append(strats_c, s_c)
           /\ i' = i + 1
           /\ pc' = IF conv THEN "done" ELSE "fict_play"
    /\ UNCHANGED <<game, call, ret>>

InitFP == InitOn(FPGames)

NextFP == fict_play_round(MaxRounds)

SpecFP == InitFP /\ [][NextFP]_vars

InitRun == InitOn(RunGames)

NextRun == fict_play_round(RoundCap)

SpecRun == InitRun /\ [][NextRun]_vars /\ WF_vars(NextRun)

-----------------------------------------------------------------------------
(* Properties of the solver. *)

\* the utility of player pl playing own (0 first, 1 second action) against opp
PlayerU(g, pl, own, opp) == IF pl = "R" THEN U1(g)[own][opp] ELSE U2(g)[opp][own]

\* the cell of actions <<r, c>> (1 first, 0 second) is a weak best reply for both
WeakBestReply(g, cell) ==
    LET r == 1 - cell[1]
        c == 1 - cell[2]
    IN  /\ PlayerU(g, "R", r, c) >= PlayerU(g, "R", 1 - r, c)
        /\ PlayerU(g, "C", c, r) >= PlayerU(g, "C", 1 - c, r)

AllCells == {<<1, 1>>, <<1, 0>>, <<0, 0>>, <<0, 1>>}

Range(seq) == {seq[k] : k \in DOMAIN seq}

\* C1: pure_NE returns exactly the cells that pass the weak best-reply test
\* of both players, each once, so between 0 and 4 of them.
C1_PureNEExact ==
    call.fn = "pure_NE" =>
        LET qualifying == {cell \in AllCells : WeakBestReply(game, cell)}
        IN  /\ Range(ret) = qualifying
            /\ Len(ret) = Cardinality(qualifying)
            /\ Len(ret) \in 0..4

\* pure_NE has returned two of the four cells of a game
C1_Witness ==
    /\ call.fn = "pure_NE"
    /\ ret = <<<<1, 1>>, <<0, 0>>>>
    /\ ~WeakBestReply(game, <<1, 0>>)

\* first action weakly at least as good as the second against both replies
FirstDominates(g, pl) == \A opp \in 0..1 : PlayerU(g, pl, 0, opp) >= PlayerU(g, pl, 1, opp)
SecondDominates(g, pl) == \A opp \in 0..1 : PlayerU(g, pl, 1, opp) >= PlayerU(g, pl, 0, opp)
AllEqual(g, pl) == \A own, opp \in 0..1 : PlayerU(g, pl, own, opp) = PlayerU(g, pl, 0, 0)

\* C5: dom_strat returns 1 iff First weakly dominates, 2 iff it does not and
\* Second does, None iff neither; a player with four equal utilities gets 1.
C5_DomStrat ==
    call.fn = "dom_strat" =>
        LET first == FirstDominates(game, call.player)
            second == SecondDominates(game, call.player)
        IN  /\ (ret = PyInt(1)) <=> first
            /\ (ret = PyInt(2)) <=> (~first /\ second)
            /\ (ret = None) <=> (~first /\ ~second)
            /\ AllEqual(game, call.player) => ret = PyInt(1)

\* dom_strat has answered for a player whose four utilities are equal
C5_Witness ==
    /\ call.fn = "dom_strat"
    /\ AllEqual(game, call.player)
    /\ ret = PyInt(1)

\* the indifference equations: coefficient and right-hand side for p and for q
CoefP(g) == (U2(g)[0][0] - U2(g)[1][0]) - (U2(g)[0][1] - U2(g)[1][1])
RhsP(g) == U2(g)[1][1] - U2(g)[1][0]
CoefQ(g) == (U1(g)[0][0] - U1(g)[0][1]) - (U1(g)[1][0] - U1(g)[1][1])
RhsQ(g) == U1(g)[1][1] - U1(g)[0][1]
\* rhs / coef lies in [0,1]
SolutionInUnit(coef, rhs) ==
    IF coef > 0 THEN 0 <= rhs /\ rhs <= coef ELSE coef <= rhs /\ rhs <= 0

\* C2: when both equations have a nonzero coefficient and solutions p, q in
\* [0,1], endpoints included, mixed_NE returns exactly [(p, q)]; matching
\* pennies yields [(0.5, 0.5)].
C2_BothSolvable ==
    call.fn = "mixed_NE" =>
        /\ ( /\ CoefP(game) # 0 /\ SolutionInUnit(CoefP(game), RhsP(game))
             /\ CoefQ(game) # 0 /\ SolutionInUnit(CoefQ(game), RhsQ(game)) )
           => ret = << <<Num(Frac(RhsP(game), CoefP(game))),
                         Num(Frac(RhsQ(game), CoefQ(game)))>> >>
        /\ game = matching_pennies => ret = << <<Num(<<1, 2>>), Num(<<1, 2>>)>> >>

AllCellsIdentical(g) == \A k \in 1..4 : g[k] = g[1]

\* C3: for a game of four identical cells mixed_NE returns the single pair
\* ('[0,1]', '[0,1]') and pure_NE returns (1,1), (1,0), (0,0), (0,1).
C3_Degenerate ==
    AllCellsIdentical(game) =>
        /\ call.fn = "mixed_NE" => ret = << <<Interval, Interval>> >>
        /\ call.fn = "pure_NE" => ret = <<<<1, 1>>, <<1, 0>>, <<0, 0>>, <<0, 1>>>>

\* Rowena's best reply in the column Colin plays (d = 1 Left, d = 0 Right)
RowReply(g, d) ==
    LET c == 1 - d
    IN  IF PlayerU(g, "R", 0, c) > PlayerU(g, "R", 1, c) THEN PyInt(1)
        ELSE IF PlayerU(g, "R", 0, c) < PlayerU(g, "R", 1, c) THEN PyInt(0)
        ELSE Interval

\* C4: when the solution p of the first equation lies outside [0,1] and
\* Colin has a dominant strategy d (Left or Right), mixed_NE returns exactly
\* [(Rowena's best reply in column d, d)]; the prisoners' dilemma yields [(0,0)].
C4_ColumnFallback ==
    call.fn = "mixed_NE" =>
        /\ ( /\ CoefP(game) # 0
             /\ ~SolutionInUnit(CoefP(game), RhsP(game))
             /\ FirstDominates(game, "C") \/ SecondDominates(game, "C") )
           => LET d == IF FirstDominates(game, "C") THEN 1 ELSE 0
              IN  ret = << <<RowReply(game, d), PyInt(d)>> >>
        /\ game = prisoners_dilemma => ret = << <<PyInt(0), PyInt(0)>> >>

\* C6: best_response takes the opponent to play the second action when
\* s <= 0.5 and the first when s > 0.5, returns the action of strictly higher
\* utility against it, and the second action (0) when the two are equal.
C6_BestResponse ==
    call.fn = "best_response" =>
        LET opp == IF FLe(call.s, <<1, 2>>) THEN 1 ELSE 0
            first == PlayerU(game, call.player, 0, opp)
            second == PlayerU(game, call.player, 1, opp)
        IN  ret = IF first > second THEN 1 ELSE 0

\* the game with Rowena and Colin exchanged
SwapRoles(g) ==
    <<<<g[1][2], g[1][1]>>, <<g[3][2], g[3][1]>>, <<g[2][2], g[2][1]>>, <<g[4][2], g[4][1]>>>>
SwapPairs(l) == [k \in DOMAIN l |-> <<l[k][2], l[k][1]>>]

\* C9: mixed_NE of the game with the roles exchanged is mixed_NE of the game
\* with the two components of every returned pair swapped.
C9_RoleSymmetry ==
    call.fn = "mixed_NE" => mixed_NE(SwapRoles(game)) = SwapPairs(ret)

-----------------------------------------------------------------------------
(* Properties of the simulator.  Trajectory entry k of the source (from 0) *)
(* is entry k + 1 here.                                                    *)

\* |x - y| < 1e-4
Within(x, y) == 10000 * Abs(x[1] * y[2] - y[1] * x[2]) < x[2] * y[2]

\* both trajectories change by less than 1e-4 between entries k and k + 1
BothSettled(k) ==
    /\ Within(strats_r[k + 1], strats_r[k + 2])
    /\ Within(strats_c[k + 1], strats_c[k + 2])

\* C7: fict_play never stops in round 0, and stops at exactly the first
\* round k >= 1 in which both players' empirical strategies differ by less
\* than 1e-4 from the previous round's: while it runs no pair of entries
\* (k, k+1), k >= 1, has settled for both, and on return the last pair has
\* and no earlier one had.
C7_StopsAtFirstSettledRound ==
    LET n == Len(strats_r) IN
    /\ pc = "done" <=> converged
    /\ i <= 1 => ~converged
    /\ (~converged /\ n >= 3) => ~BothSettled(n - 2)
    /\ converged =>
          /\ n = i + 1
          /\ BothSettled(n - 2)
          /\ \A k \in 1..(n - 3) : ~BothSettled(k)

\* fict_play has returned after a hundred rounds in which Rowena's strategy
\* stood still while Colin's still moved
C7_Witness ==
    /\ pc = "done"
    /\ i > 100
    /\ \E k \in 1..(Len(strats_r) - 3) :
          /\ Within(strats_r[k + 1], strats_r[k + 2])
          /\ ~Within(strats_c[k + 1], strats_c[k + 2])

InUnitInterval(x) == 0 <= x[1] /\ x[1] <= x[2]

\* one entry appended, nothing changed or removed
GrewByOne(old, new) == Len(new) = Len(old) + 1 /\ SubSeq(new, 1, Len(old)) = old

C8_Shape ==
    /\ Len(H_r) = Len(H_c) /\ Len(H_c) = Len(strats_r) /\ Len(strats_r) = Len(strats_c)
    /\ \A k \in DOMAIN H_r : H_r[k] \in {0, 1} /\ H_c[k] \in {0, 1}
    /\ \A k \in DOMAIN strats_r : InUnitInterval(strats_r[k]) /\ InUnitInterval(strats_c[k])
    /\ strats_r[1] = <<1, 1>> /\ strats_c[1] = <<1, 1>>

C8_Round ==
    /\ GrewByOne(H_r, H_r') /\ GrewByOne(H_c, H_c')
    /\ GrewByOne(strats_r, strats_r') /\ GrewByOne(strats_c, strats_c')

\* C8: in every state of the fict_play loop the two histories and the two
\* trajectories have the same length, every history entry is 0 or 1, every
\* trajectory entry lies in [0,1] and entry 0 is the initial action 1; each
\* round appends exactly one entry to each and changes or removes none.
C8_HistoriesAndTrajectories == [](C8_Shape) /\ [][C8_Round]_vars

\* the loop has played both actions and the trajectories have left 0 and 1
C8_Witness ==
    /\ Len(H_r) > 3
    /\ 0 \in Range(H_r) /\ 0 \in Range(H_c)
    /\ \E k \in DOMAIN strats_r : 0 < strats_r[k][1] /\ strats_r[k][1] < strats_r[k][2]

\* the entry appended in a round after round 0 differs from the one before
\* it by at most 1/(i+1)
C10_Step ==
    i >= 1 =>
        /\ (i + 1) * Abs(Last(strats_r')[1] * Last(strats_r)[2]
                         - Last(strats_r)[1] * Last(strats_r')[2])
              <= Last(strats_r')[2] * Last(strats_r)[2]
        /\ (i + 1) * Abs(Last(strats_c')[1] * Last(strats_c)[2]
                         - Last(strats_c)[1] * Last(strats_c')[2])
              <= Last(strats_c')[2] * Last(strats_c)[2]

C10_Bound ==
    /\ pc = "fict_play" => i <= 10000
    /\ pc = "done" => i <= 10001 /\ Len(strats_r) <= 10002 /\ Len(strats_c) <= 10002

\* C10: fict_play terminates on every game: a round changes each running
\* average by at most 1/(i+1), the loop is never still running beyond
\* i = 10000 (below RoundCap, so the run was not cut short), so its body runs
\* at most 10001 times, and each returned trajectory has at most 10002 entries.
C10_Terminates == [](C10_Bound) /\ [][C10_Step]_vars

\* a game has been played to the end over more than 140 rounds, both
\* players having played both actions
C10_Witness ==
    /\ pc = "done"
    /\ i > 140
    /\ 0 \in Range(H_r) /\ 0 \in Range(H_c)

====
